---- MODULE Spec2Model ----
(***************************************************************************)
(* Model of kinopub-downloader's parallel downloader                       *)
(* (src/src/parallel_downloader/mod.rs, Downloader::download_to).          *)
(*                                                                         *)
(* One call of download_to is modelled: the coordinator (the async fn      *)
(* itself) and the tasks it spawns with tokio::task::spawn, one per        *)
(* planned range.  The remote server and the file system are the           *)
(* environment: every outcome they can produce at a call site is a         *)
(* nondeterministic choice of the corresponding action.                    *)
(*                                                                         *)
(* A second specification, AuthSpec, models one call of                    *)
(* Authenticator::authenticate (src/src/auth/authenticator.rs) over the    *)
(* token file of JsonTokenStorage (src/src/auth/storage.rs).  The program  *)
(* authenticates before it downloads; the two are modelled apart, each     *)
(* specification holding the other part's variables still.                 *)
(*                                                                         *)
(* Byte counts are u64 in the source.  All sizes of the model are far      *)
(* below 2^64, so no u64 operation of the model wraps; the arithmetic is   *)
(* the source's integer arithmetic (floor division, min).                  *)
(***************************************************************************)
EXTENDS Integers, Sequences, FiniteSets, TLC

\* ------------------------------------------------------------------ bounds
MaxSize    == 3   \* largest resource length (Content-Length), in bytes
MaxThreads == 3   \* largest `threads` argument
MaxChunk   == 2   \* largest chunk the body stream yields in one item
MaxTtl       == 2   \* largest expires_in of a token, in seconds
MaxExpiresIn == 2   \* largest expires_in of a device code, in seconds
MaxInterval  == 2   \* largest polling interval of a device code, in seconds

\* --------------------------------------------------------------- variables
VARIABLES
    total_size,     \* length of the remote resource = parsed Content-Length
    threads,        \* the `threads` argument of download_to
    server,         \* how the server answers a ranged GET: "partial" | "full"
    headStatus,     \* status code the server gives its HEAD responses
    lengthHeader,   \* Content-Length header of the first HEAD response
    pc,             \* position of download_to
    result,         \* what download_to returned ("none" while running)
    headRequests,   \* number of HEAD requests sent so far
    getRequests,    \* sequence of the Range header pairs of the GETs sent
    acceptHeader,   \* Accept-Ranges value read by is_accept_ranges
    ranges,         \* the planned (start, end) pairs
    fetchers,       \* the spawned tasks, one record per JoinHandle
    fileExists,     \* does the destination path exist
    file,           \* content of the destination file (sequence of bytes)
    cursor,         \* seek cursor of the shared File handle
    lock,           \* holder of the Mutex<File> (0 = free)
    progressLen,    \* ProgressBar length
    progressPos,    \* ProgressBar position (sum of inc)
    progressDone,   \* finish_and_clear has run
    stored,         \* content of the token file of JsonTokenStorage
    now,            \* Utc::now(), in seconds
    apc,            \* position of Authenticator::authenticate
    token,          \* what storage.get() returned on line 106
    read,           \* the time and the file content storage.get() saw
    refreshed,      \* outcome of refresh_token on line 110
    token_data,     \* the TokenData of line 113 or 130
    response,       \* the CodeResponse of line 122
    pollStart,      \* the time at which timeout(..) of line 124 started
    wakeAt,         \* the time at which the sleep of line 185 ends
    requests,       \* the requests authenticate has sent: kind and time
    replies,        \* the answers the polling loop has received
    writes,         \* the TokenData storage.set() has written
    authResult      \* what authenticate returned

downloadVars ==
    <<total_size, threads, server, headStatus, lengthHeader, pc, result,
      headRequests, getRequests, acceptHeader, ranges, fetchers,
      fileExists, file, cursor, lock, progressLen, progressPos,
      progressDone>>

authVars ==
    <<stored, now, apc, token, read, refreshed, token_data, response,
      pollStart, wakeAt, requests, replies, writes, authResult>>

vars == <<downloadVars, authVars>>

\* ------------------------------------------------------------ pure helpers
Min(a, b) == IF a < b THEN a ELSE b

Max(a, b) == IF a > b THEN a ELSE b

\* The remote resource: n bytes, the byte at offset i (0-based) is i + 1, so
\* every offset holds a different byte and a misplaced byte is visible.
Resource(n) == [i \in 1..n |-> i]

\* Content of a file that is already present at the destination path before
\* File::create: longer than any resource, and of bytes no resource holds.
OldFile == [i \in 1..(MaxSize + 2) |-> 255]

\* let chunk_size = total_size / threads;   (threads > 0)
ChunkSizeOffByOne(total, n) == total \div (n + 1)

ChunkSize(total, n) == total \div n

\* the planning loop, from the current value of `start`:
\*   while start < total_size {
\*       ranges.push((start, (start + chunk_size).min(total_size)));
\*       start += chunk_size + 1; }
RECURSIVE PlanFromInclusive(_, _, _)
PlanFromInclusive(start, total, chunk) ==
    IF start <= total
    THEN <<  <<start, Min(start + chunk, total)>>  >>
         \o PlanFromInclusive(start + chunk + 1, total, chunk)
    ELSE << >>

RECURSIVE PlanFrom(_, _, _)
PlanFrom(start, total, chunk) ==
    IF start < total
    THEN <<  <<start, Min(start + chunk, total)>>  >>
         \o PlanFrom(start + chunk + 1, total, chunk)
    ELSE << >>

Plan(total, n) == PlanFrom(0, total, ChunkSize(total, n))

\* A header value is the sequence of its characters; <<"absent">> stands for
\* a response without the header (headers().get(..) is None).
DigitChars == <<"0", "1", "2", "3", "4", "5", "6", "7", "8", "9">>

IsDigit(c) == \E d \in 1..10 : DigitChars[d] = c

DigitValue(c) == (CHOOSE d \in 1..10 : DigitChars[d] = c) - 1

\* value of a sequence of decimal digits
RECURSIVE DigitsValue(_)
DigitsValue(s) ==
    IF s = << >> THEN 0
    ELSE DigitsValue(SubSeq(s, 1, Len(s) - 1)) * 10 + DigitValue(s[Len(s)])

\* str::parse::<u64>: an optional "+", then one or more decimal digits and
\* nothing else (values of the model are far below 2^64).
ParseU64(s) ==
    LET digits == IF s # << >> /\ s[1] = "+" THEN Tail(s) ELSE s
    IN  IF digits # << >> /\ \A k \in 1..Len(digits) : IsDigit(digits[k])
        THEN [ok |-> TRUE, val |-> DigitsValue(digits), err |-> "none"]
        ELSE [ok |-> FALSE, val |-> 0, err |-> "bad_length"]

\* lines 39-43: .get(CONTENT_LENGTH).ok_or_else(..)?.to_str()?.parse::<u64>()?
ContentLengthOrZero(h) ==
    IF h # <<"absent">> /\ ParseU64(h).ok THEN ParseU64(h)
    ELSE [ok |-> TRUE, val |-> 0, err |-> "none"]

ContentLength(h) ==
    IF h = <<"absent">> THEN [ok |-> FALSE, val |-> 0, err |-> "no_length"]
    ELSE ParseU64(h)

\* decimal digits of n, as a server writes its Content-Length
RECURSIVE Decimal(_)
Decimal(n) ==
    IF n < 10 THEN <<DigitChars[n + 1]>>
    ELSE Decimal(n \div 10) \o <<DigitChars[(n % 10) + 1]>>

\* Content-Length headers the first HEAD response can carry for a resource
\* of n bytes: none, an empty value, not a number, a negative number, n.
LengthHeaders(n) ==
    {<<"absent">>, << >>, <<"x">>, <<"-", "1">>, Decimal(n)}

\* matches!(header, Some(value) if value == "bytes")
IsAcceptRangesLoose(header) == header # "absent"

IsAcceptRanges(header) == header = "bytes"

\* Values the Accept-Ranges header of the probe response can have.
AcceptValues == {"absent", "bytes", "none", "Bytes"}

\* f.seek(SeekFrom::Start(offset))
SeekCurrent(cur, offset) == cur + offset

SeekStart(cur, offset) == offset

\* f.write_all(&data) with the cursor at pos: bytes land at pos.., the file
\* grows when the write ends past its end, a gap below pos reads as zero
\* bytes (a hole).
\* Writing no bytes leaves the file as it is.
WriteAt(f, pos, data) ==
    IF data = << >> THEN f
    ELSE [j \in 1..Max(Len(f), pos + Len(data)) |->
            IF j > pos /\ j <= pos + Len(data) THEN data[j - pos]
            ELSE IF j <= Len(f) THEN f[j]
            ELSE 0]

\* offset += chunk.len() as u64;
NextOffsetStuck(offset, chunk) == offset

NextOffset(offset, chunk) == offset + Len(chunk)

\* Body the server sends for `Range: bytes=s-e` on a resource of n bytes:
\* a server that honours the range sends the bytes s..e, both inclusive,
\* clamped to the last byte; one that ignores it sends the whole resource.
RangeBody(kind, s, e, n) ==
    IF kind = "partial" THEN SubSeq(Resource(n), s + 1, Min(e, n - 1) + 1)
    ELSE Resource(n)

\* tokio::task::spawn(async move { ... }) for the range (start, end).
\* written counts the bytes the task has put into the file, torn those of
\* them that a failing write_all wrote before its error.
NewFetcher(r) ==
    [pc |-> "build", start |-> r[1], end |-> r[2], offset |-> 0,
     body |-> << >>, chunk |-> << >>, written |-> 0, torn |-> 0,
     res |-> "none"]

\* A JoinHandle<Result<()>> resolves to Err(JoinError) only when its task
\* panicked or was aborted; a task that returns Err(e) resolves to Ok(Err(e)).
JoinErrors(fs) == {i \in 1..Len(fs) : fs[i].res = "panic"}

\* try_join_all(promises) completes when every handle has resolved, or
\* earlier, as soon as one handle resolves to Err(JoinError).
Finished(fs) == \A i \in 1..Len(fs) : fs[i].pc = "done"

TryJoinAllEager(fs) ==
    Finished(fs) \/ \E i \in 1..Len(fs) : fs[i].res \in {"err", "panic"}

TryJoinAllReady(fs) == Finished(fs) \/ JoinErrors(fs) # {}

\* ------------------------------------------------------- token data, time
\* chrono::Duration::days(29), in seconds
RefreshDays == 29

SecondsPerDay == 86400

RefreshWindow == RefreshDays * SecondsPerDay

\* The token file: missing, not a TokenData in JSON, or a TokenData
\* (token.rs lines 6-13).
NoFile ==
    [kind |-> "missing", access_token |-> "", refresh_token |-> "",
     expires_in |-> 0, updated_at |-> 0]

Corrupt == [NoFile EXCEPT !.kind = "corrupt"]

\* impl From<TokenResponse> for TokenData, with t the value of Utc::now()
TokenDataFrom(r, t) ==
    [kind |-> "data", access_token |-> r.access_token,
     refresh_token |-> r.refresh_token, expires_in |-> r.expires_in,
     updated_at |-> t]

\* Option<Token>
NoToken == [kind |-> "none", value |-> ""]

AccessToken(a) == [kind |-> "access", value |-> a]

RefreshToken(r) == [kind |-> "refresh", value |-> r]

\* JsonTokenStorage::get on a file that exists and parses, read at time t.
\* The two Utc::now() calls of lines 34 and 38 are nanoseconds apart; the
\* clock of the model counts seconds, both read the same t.
StorageGetInclusive(data, t) ==
    IF data.kind = "missing" THEN NoToken
    ELSE IF t <= data.updated_at + data.expires_in
         THEN AccessToken(data.access_token)
    ELSE IF t <= data.updated_at + RefreshWindow
         THEN RefreshToken(data.refresh_token)
    ELSE NoToken

StorageGet(data, t) ==
    IF data.kind = "missing" THEN NoToken
    ELSE IF t < data.updated_at + data.expires_in
         THEN AccessToken(data.access_token)
    ELSE IF t < data.updated_at + RefreshWindow
         THEN RefreshToken(data.refresh_token)
    ELSE NoToken

\* Result<String> of authenticate; "none" while it runs.
Running == [kind |-> "none", value |-> ""]

\* No call of authenticate: the state of the token storage and of the
\* authenticator while the downloader runs.
AuthIdle ==
    /\ stored = NoFile
    /\ now = 0
    /\ apc = "idle"
    /\ token = [kind |-> "unread", value |-> ""]
    /\ read = [at |-> 0, data |-> NoFile]
    /\ refreshed = "unasked"
    /\ token_data = NoFile
    /\ response = [expires_in |-> 0, interval |-> 0]
    /\ pollStart = 0
    /\ wakeAt = 0
    /\ requests = << >>
    /\ replies = << >>
    /\ writes = << >>
    /\ authResult = Running

\* --------------------------------------------------------------------- Init
DownloadInit ==
    /\ total_size \in 0..MaxSize
    /\ threads \in 0..MaxThreads
    /\ server \in {"partial", "full"}
    /\ headStatus \in {200, 404}
    /\ lengthHeader = <<"unread">>
    /\ pc = "probe_length"
    /\ result = "none"
    /\ headRequests = 0
    /\ getRequests = << >>
    /\ acceptHeader = "unread"
    /\ ranges = << >>
    /\ fetchers = << >>
    /\ fileExists \in BOOLEAN
    /\ file = IF fileExists THEN OldFile ELSE << >>
    /\ cursor = 0
    /\ lock = 0
    /\ progressLen = 0
    /\ progressPos = 0
    /\ progressDone = FALSE

Init == DownloadInit /\ AuthIdle

\* ------------------------------------------------------------- coordinator
Return(r) == pc' = "done" /\ result' = r

\* lines 34-62: HEAD (its status is not looked at), Content-Length,
\* ProgressBar::new(0), set_length
ProbeLength ==
    /\ pc = "probe_length"
    /\ headRequests' = headRequests + 1
    /\ \/ /\ Return("probe_error")
          /\ UNCHANGED <<lengthHeader, progressLen>>
       \/ \E h \in LengthHeaders(total_size) :
            /\ lengthHeader' = h
            /\ IF ContentLength(h).ok
               THEN /\ pc' = "probe_ranges"
                    /\ progressLen' = ContentLength(h).val
                    /\ UNCHANGED result
               ELSE /\ Return(ContentLength(h).err)
                    /\ UNCHANGED progressLen
    /\ UNCHANGED <<total_size, threads, server, headStatus, getRequests,
                   acceptHeader, ranges, fetchers, fileExists, file, cursor,
                   lock, progressPos, progressDone>>
    /\ UNCHANGED authVars

\* lines 64-68 with is_accept_ranges, lines 20-24
ProbeRanges ==
    /\ pc = "probe_ranges"
    /\ headRequests' = headRequests + 1
    /\ \/ /\ Return("probe_error")
          /\ UNCHANGED acceptHeader
       \/ \E h \in AcceptValues :
            /\ acceptHeader' = h
            /\ IF IsAcceptRanges(h)
               THEN pc' = "plan" /\ UNCHANGED result
               ELSE Return("ranges_unsupported")
    /\ UNCHANGED <<total_size, threads, server, headStatus, lengthHeader,
                   getRequests, ranges, fetchers, fileExists, file, cursor,
                   lock, progressLen, progressPos, progressDone>>
    /\ UNCHANGED authVars

\* lines 70-76: the division panics when threads = 0
PlanRanges ==
    /\ pc = "plan"
    /\ IF threads = 0
       THEN Return("panic") /\ UNCHANGED ranges
       ELSE /\ ranges' = Plan(total_size, threads)
            /\ pc' = "create"
            /\ UNCHANGED result
    /\ UNCHANGED <<total_size, threads, server, headStatus, lengthHeader,
                   headRequests, getRequests, acceptHeader, fetchers,
                   fileExists, file, cursor, lock, progressLen, progressPos,
                   progressDone>>
    /\ UNCHANGED authVars

\* lines 78-80: File::create creates the file or truncates an existing one
CreateFile ==
    /\ pc = "create"
    /\ \/ /\ Return("create_error")
          /\ UNCHANGED <<fileExists, file, cursor>>
       \/ /\ fileExists' = TRUE
          /\ file' = << >>
          /\ cursor' = 0
          /\ pc' = IF ranges = << >> THEN "join" ELSE "spawn"
          /\ UNCHANGED result
    /\ UNCHANGED <<total_size, threads, server, headStatus, lengthHeader,
                   headRequests, getRequests, acceptHeader, ranges, fetchers,
                   lock, progressLen, progressPos, progressDone>>
    /\ UNCHANGED authVars

\* lines 82-88, 113-114: one iteration of the spawn loop
Spawn ==
    /\ pc = "spawn"
    /\ Len(fetchers) < Len(ranges)
    /\ fetchers' = Append(fetchers, NewFetcher(ranges[Len(fetchers) + 1]))
    /\ pc' = IF Len(fetchers) + 1 = Len(ranges) THEN "join" ELSE "spawn"
    /\ UNCHANGED <<total_size, threads, server, headStatus, lengthHeader,
                   result, headRequests, getRequests, acceptHeader, ranges,
                   fileExists, file, cursor, lock, progressLen, progressPos,
                   progressDone>>
    /\ UNCHANGED authVars

\* lines 116-119: try_join_all(promises).await?; finish_and_clear; Ok(())
Join ==
    /\ pc = "join"
    /\ TryJoinAllReady(fetchers)
    /\ IF JoinErrors(fetchers) # {}
       THEN Return("join_error") /\ UNCHANGED progressDone
       ELSE Return("ok") /\ progressDone' = TRUE
    /\ UNCHANGED <<total_size, threads, server, headStatus, lengthHeader,
                   headRequests, getRequests, acceptHeader, ranges, fetchers,
                   fileExists, file, cursor, lock, progressLen, progressPos>>
    /\ UNCHANGED authVars

\* ---------------------------------------------------------------- fetchers
\* The body of the spawned task, lines 88-113.  i is the task's index.
Update(i, r) == fetchers' = [fetchers EXCEPT ![i] = r]

\* An error in the task body leaves it through `?`: the task ends with Err(e),
\* nothing in the body or in download_to runs the request again.
FailRetry(f) ==
    IF f.pc = "response" THEN [f EXCEPT !.pc = "send"]
    ELSE [f EXCEPT !.pc = "done", !.res = "err", !.chunk = << >>]

Fail(f) == [f EXCEPT !.pc = "done", !.res = "err", !.chunk = << >>]

\* lines 89-95: the Range header and reqwest::Client::builder()...build()?
BuildClient(i) ==
    /\ fetchers[i].pc = "build"
    /\ \/ Update(i, [fetchers[i] EXCEPT !.pc = "send"])
       \/ Update(i, Fail(fetchers[i]))
    /\ UNCHANGED <<total_size, threads, server, headStatus, lengthHeader, pc,
                   result, headRequests, getRequests, acceptHeader, ranges,
                   fileExists, file, cursor, lock, progressLen, progressPos,
                   progressDone>>
    /\ UNCHANGED authVars

\* line 97, client.get(url).send(): the request goes out with
\* Range: bytes=start-end
SendGet(i) ==
    /\ fetchers[i].pc = "send"
    /\ getRequests' = Append(getRequests, <<fetchers[i].start, fetchers[i].end>>)
    /\ Update(i, [fetchers[i] EXCEPT !.pc = "response"])
    /\ UNCHANGED <<total_size, threads, server, headStatus, lengthHeader, pc,
                   result, headRequests, acceptHeader, ranges, fileExists,
                   file, cursor, lock, progressLen, progressPos,
                   progressDone>>
    /\ UNCHANGED authVars

\* lines 97-100, .await?: the response arrives or the request fails; the
\* status of the response is not looked at.
Response(i) ==
    /\ fetchers[i].pc = "response"
    /\ \/ Update(i, [fetchers[i] EXCEPT
                       !.pc = "next",
                       !.offset = fetchers[i].start,
                       !.body = RangeBody(server, fetchers[i].start,
                                          fetchers[i].end, total_size)])
       \/ Update(i, Fail(fetchers[i]))
    /\ UNCHANGED <<total_size, threads, server, headStatus, lengthHeader, pc,
                   result, headRequests, getRequests, acceptHeader, ranges,
                   fileExists, file, cursor, lock, progressLen, progressPos,
                   progressDone>>
    /\ UNCHANGED authVars

\* lines 102-103 and 112: stream.next().await yields the next chunk of the
\* body, an error, or None at the end of the body (the task returns Ok(())).
StreamNext(i) ==
    /\ fetchers[i].pc = "next"
    /\ \/ /\ fetchers[i].body = << >>
          /\ Update(i, [fetchers[i] EXCEPT !.pc = "done", !.res = "ok"])
       \/ \E k \in 1..Min(MaxChunk, Len(fetchers[i].body)) :
            Update(i, [fetchers[i] EXCEPT
                         !.pc = "lock",
                         !.chunk = SubSeq(fetchers[i].body, 1, k),
                         !.body = SubSeq(fetchers[i].body, k + 1,
                                         Len(fetchers[i].body))])
       \/ Update(i, Fail(fetchers[i]))
    /\ UNCHANGED <<total_size, threads, server, headStatus, lengthHeader, pc,
                   result, headRequests, getRequests, acceptHeader, ranges,
                   fileExists, file, cursor, lock, progressLen, progressPos,
                   progressDone>>
    /\ UNCHANGED authVars

\* Mutex::lock returns the guard only while no other guard exists.
CanLockAlways(holder) == TRUE

CanLock(holder) == holder = 0

\* line 104: file.lock().unwrap() (no task panics, the mutex is never poisoned)
Lock(i) ==
    /\ fetchers[i].pc = "lock"
    /\ CanLock(lock)
    /\ lock' = i
    /\ Update(i, [fetchers[i] EXCEPT !.pc = "seek"])
    /\ UNCHANGED <<total_size, threads, server, headStatus, lengthHeader, pc,
                   result, headRequests, getRequests, acceptHeader, ranges,
                   fileExists, file, cursor, progressLen, progressPos,
                   progressDone>>
    /\ UNCHANGED authVars

\* line 105: f.seek(SeekFrom::Start(offset))?; an error drops the guard
Seek(i) ==
    /\ fetchers[i].pc = "seek"
    /\ \/ /\ cursor' = SeekStart(cursor, fetchers[i].offset)
          /\ Update(i, [fetchers[i] EXCEPT !.pc = "write"])
          /\ UNCHANGED lock
       \/ /\ Update(i, Fail(fetchers[i]))
          /\ lock' = 0
          /\ UNCHANGED cursor
    /\ UNCHANGED <<total_size, threads, server, headStatus, lengthHeader, pc,
                   result, headRequests, getRequests, acceptHeader, ranges,
                   fileExists, file, progressLen, progressPos, progressDone>>
    /\ UNCHANGED authVars

\* line 106: f.write_all(&chunk)?; a failing write_all may have written a
\* proper prefix of the chunk before the error.
Write(i) ==
    /\ fetchers[i].pc = "write"
    /\ \/ /\ file' = WriteAt(file, cursor, fetchers[i].chunk)
          /\ cursor' = cursor + Len(fetchers[i].chunk)
          /\ Update(i, [fetchers[i] EXCEPT
                          !.pc = "inc",
                          !.written = @ + Len(fetchers[i].chunk)])
          /\ UNCHANGED lock
       \/ \E k \in 0..(Len(fetchers[i].chunk) - 1) :
            /\ file' = WriteAt(file, cursor, SubSeq(fetchers[i].chunk, 1, k))
            /\ cursor' = cursor + k
            /\ Update(i, [Fail(fetchers[i]) EXCEPT !.written = @ + k,
                                                   !.torn = k])
            /\ lock' = 0
    /\ UNCHANGED <<total_size, threads, server, headStatus, lengthHeader, pc,
                   result, headRequests, getRequests, acceptHeader, ranges,
                   fileExists, progressLen, progressPos, progressDone>>
    /\ UNCHANGED authVars

\* line 109: progress.inc(chunk.len() as u64), an atomic add
ProgressIncOne(pos, chunk) == pos + 1

ProgressInc(pos, chunk) == pos + Len(chunk)

\* line 110: the MutexGuard `f` is a local of the loop body and is dropped at
\* its closing brace, before the next stream.next().await
GuardKept(holder) == holder

GuardDropped(holder) == 0

\* lines 108-110: offset += len; progress.inc(len); the guard drops at the
\* end of the loop body.
Inc(i) ==
    /\ fetchers[i].pc = "inc"
    /\ progressPos' = ProgressInc(progressPos, fetchers[i].chunk)
    /\ lock' = GuardDropped(lock)
    /\ Update(i, [fetchers[i] EXCEPT
                    !.pc = "next",
                    !.offset = NextOffset(fetchers[i].offset, fetchers[i].chunk),
                    !.chunk = << >>])
    /\ UNCHANGED <<total_size, threads, server, headStatus, lengthHeader, pc,
                   result, headRequests, getRequests, acceptHeader, ranges,
                   fileExists, file, cursor, progressLen, progressDone>>
    /\ UNCHANGED authVars

\* ------------------------------------------------------------ specification
Next ==
    \/ ProbeLength
    \/ ProbeRanges
    \/ PlanRanges
    \/ CreateFile
    \/ Spawn
    \/ Join
    \/ \E i \in 1..Len(fetchers) : BuildClient(i)
    \/ \E i \in 1..Len(fetchers) : SendGet(i)
    \/ \E i \in 1..Len(fetchers) : Response(i)
    \/ \E i \in 1..Len(fetchers) : StreamNext(i)
    \/ \E i \in 1..Len(fetchers) : Lock(i)
    \/ \E i \in 1..Len(fetchers) : Seek(i)
    \/ \E i \in 1..Len(fetchers) : Write(i)
    \/ \E i \in 1..Len(fetchers) : Inc(i)

Spec == Init /\ [][Next]_vars

\* download_to itself: the future the caller awaits.
Coordinator ==
    ProbeLength \/ ProbeRanges \/ PlanRanges \/ CreateFile \/ Spawn \/ Join

\* The i-th spawned task.
Fetcher(i) ==
    /\ i \in 1..Len(fetchers)
    /\ \/ BuildClient(i) \/ SendGet(i) \/ Response(i) \/ StreamNext(i)
       \/ Lock(i) \/ Seek(i) \/ Write(i) \/ Inc(i)

\* The plan never holds more pairs than there are bytes or workers.
MaxFetchers == Min(MaxSize, MaxThreads)

\* The tokio runtime polls every task that can make progress: download_to
\* and each spawned task are scheduled weakly fairly.  A step of a task that
\* waits for the network is the arrival of the response, of the next item of
\* the body stream, or of the error.
\* Neither the status of the HEAD responses nor a file already present at
\* the destination is ever read by download_to or by a task, so no step is
\* enabled or disabled by them: one value of each is followed.
FairInit == Init /\ headStatus = 200 /\ ~fileExists

FairSpec ==
    /\ FairInit
    /\ [][Next]_vars
    /\ WF_vars(Coordinator)
    /\ \A i \in 1..MaxFetchers : WF_vars(Fetcher(i))

\* ------------------------------------------------------------------- types
TypeOK ==
    /\ total_size \in 0..MaxSize
    /\ threads \in 0..MaxThreads
    /\ headStatus \in {200, 404}
    /\ lengthHeader \in LengthHeaders(total_size) \cup {<<"unread">>}
    /\ pc \in {"probe_length", "probe_ranges", "plan", "create", "spawn",
               "join", "done"}
    /\ result \in {"none", "ok", "probe_error", "no_length", "bad_length",
                   "ranges_unsupported", "panic", "create_error", "join_error"}
    /\ lock \in 0..Len(fetchers)
    /\ Len(fetchers) <= Len(ranges)

\* ------------------------------------------------------------ authenticate
\* One call of Authenticator::authenticate, authenticator.rs lines 105-136.
\* The token file was last written at updated_at; the call is made when the
\* file has one of these ages, in seconds: around the expiry of a short
\* token and around the 29 days.
Ages ==
    (-1..(MaxTtl + 1)) \cup ((RefreshWindow - 1)..(RefreshWindow + 2))

\* expires_in of the stored token: short, or longer than the 29 days
StoredTtls == (0..MaxTtl) \cup {RefreshWindow + 1}

StoredFiles ==
    {NoFile, Corrupt} \cup
    {[kind |-> "data", access_token |-> "a0", refresh_token |-> "r0",
      expires_in |-> e, updated_at |-> u] : e \in StoredTtls, u \in 1..2}

\* TokenResponse, lines 30-36
TokenResponse(a, r, e) ==
    [access_token |-> a, refresh_token |-> r, expires_in |-> e]

\* Result<String>
Ok(a) == [kind |-> "ok", value |-> a]

Err(e) == [kind |-> "error", value |-> e]

Authorization(e) == [kind |-> "authorization", value |-> e]

Panic == [kind |-> "panic", value |-> ""]

Request(k) == [kind |-> k, at |-> now]

Reply(k, e) == [kind |-> k, error |-> e, at |-> now]

AuthInit ==
    /\ DownloadInit
    /\ total_size = 0 /\ threads = 0 /\ server = "partial"
    /\ headStatus = 200 /\ ~fileExists
    /\ stored \in StoredFiles
    /\ \E age \in Ages : now = stored.updated_at + age /\ now >= 0
    /\ apc = "get"
    /\ token = [kind |-> "unread", value |-> ""]
    /\ read = [at |-> 0, data |-> NoFile]
    /\ refreshed = "unasked"
    /\ token_data = NoFile
    /\ response = [expires_in |-> 0, interval |-> 0]
    /\ pollStart = 0
    /\ wakeAt = 0
    /\ requests = << >>
    /\ replies = << >>
    /\ writes = << >>
    /\ authResult = Running

AuthReturn(r) == apc' = "done" /\ authResult' = r

\* line 106, self.storage.get(): storage.rs lines 28-43.  A missing file
\* gives None (line 29), a file that is no TokenData panics (line 32).
GetStored ==
    /\ apc = "get"
    /\ read' = [at |-> now, data |-> stored]
    /\ IF stored.kind = "corrupt"
       THEN AuthReturn(Panic) /\ UNCHANGED token
       ELSE /\ token' = StorageGet(stored, now)
            /\ apc' = "match"
            /\ UNCHANGED authResult
    /\ UNCHANGED <<stored, now, refreshed, token_data, response, pollStart,
                   wakeAt, requests, replies, writes>>
    /\ UNCHANGED downloadVars

\* line 108: Token::AccessToken(access_token) => return Ok(access_token)
ReturnsStoredNever(tok) == FALSE

ReturnsStored(tok) == tok.kind = "access"

\* lines 106-109 and 120: the match on the stored token
MatchToken ==
    /\ apc = "match"
    /\ IF ReturnsStored(token)
       THEN AuthReturn(Ok(token.value))
       ELSE /\ apc' = IF token.kind = "refresh" THEN "refresh"
                      ELSE "device_code"
            /\ UNCHANGED authResult
    /\ UNCHANGED <<stored, now, token, read, refreshed, token_data, response,
                   pollStart, wakeAt, requests, replies, writes>>
    /\ UNCHANGED downloadVars

\* lines 110-113 with refresh_token, lines 138-157: one POST; a failed
\* request or a body that is no TokenResponse gives None, anything else
\* Some(token), which line 113 turns into a TokenData.
Refresh ==
    /\ apc = "refresh"
    /\ requests' = Append(requests, Request("refresh"))
    /\ \/ /\ refreshed' = "none"
          /\ apc' = "device_code"
          /\ UNCHANGED token_data
       \/ \E ttl \in 0..MaxTtl :
            /\ refreshed' = "some"
            /\ token_data' = TokenDataFrom(TokenResponse("a1", "r1", ttl), now)
            /\ apc' = "set_refreshed"
    /\ UNCHANGED <<stored, now, token, read, response, pollStart, wakeAt,
                   replies, writes, authResult>>
    /\ UNCHANGED downloadVars

\* self.storage.set(&token_data)?, storage.rs lines 45-58: the file is
\* opened with truncate (a failure panics, line 53) and the JSON written
\* (a failure returns the error and leaves the truncated file, line 55).
\* next is where authenticate goes on after Ok(()).
StorageSet(next) ==
    \/ /\ stored' = token_data
       /\ writes' = Append(writes, token_data)
       /\ IF next = "done"
          THEN AuthReturn(Ok(token_data.access_token))
          ELSE apc' = next /\ UNCHANGED authResult
    \/ /\ AuthReturn(Panic)
       /\ UNCHANGED <<stored, writes>>
    \/ /\ stored' = Corrupt
       /\ AuthReturn(Err("storage"))
       /\ UNCHANGED writes

\* lines 114-116: set, then return Ok(token_data.access_token)
SetRefreshed ==
    /\ apc = "set_refreshed"
    /\ StorageSet("done")
    /\ UNCHANGED <<now, token, read, refreshed, token_data, response,
                   pollStart, wakeAt, requests, replies>>
    /\ UNCHANGED downloadVars

\* line 122 with get_device_code, lines 79-103: one POST whose answer gives
\* the code, its life time and the polling interval (at least one second);
\* timeout(..) of line 124 starts at once.
GetDeviceCode ==
    /\ apc = "device_code"
    /\ requests' = Append(requests, Request("device_code"))
    /\ \/ /\ AuthReturn(Err("request"))
          /\ UNCHANGED <<response, pollStart>>
       \/ \E e \in 0..MaxExpiresIn, iv \in 1..MaxInterval :
            /\ response' = [expires_in |-> e, interval |-> iv]
            /\ pollStart' = now
            /\ apc' = "poll_send"
            /\ UNCHANGED authResult
    /\ UNCHANGED <<stored, now, token, read, refreshed, token_data, wakeAt,
                   replies, writes>>
    /\ UNCHANGED downloadVars

\* lines 165-173: the polling request goes out
PollSend ==
    /\ apc = "poll_send"
    /\ requests' = Append(requests, Request("poll"))
    /\ apc' = "poll_wait"
    /\ UNCHANGED <<stored, now, token, read, refreshed, token_data, response,
                   pollStart, wakeAt, replies, writes, authResult>>
    /\ UNCHANGED downloadVars

\* line 181: result.error != "authorization_pending"
IsPendingAny(error) == TRUE

IsPending(error) == error = "authorization_pending"

\* The `error` values the server answers a polling request with.
PollErrors == {"authorization_pending", "slow_down", "access_denied"}

\* lines 173-185 and 130: the answer to the polling request.  The request
\* fails or its body does not parse (`?`); or the status is a success and
\* the body a TokenResponse; or the body is an error.
PollReply ==
    /\ apc = "poll_wait"
    /\ \/ /\ replies' = Append(replies, Reply("failed", ""))
          /\ AuthReturn(Err("request"))
          /\ UNCHANGED <<token_data, wakeAt>>
       \/ \E ttl \in 0..MaxTtl :
            /\ replies' = Append(replies, Reply("token", ""))
            /\ token_data' = TokenDataFrom(TokenResponse("a2", "r2", ttl), now)
            /\ apc' = "set_authorized"
            /\ UNCHANGED <<wakeAt, authResult>>
       \/ \E e \in PollErrors :
            /\ replies' = Append(replies, Reply("error", e))
            /\ IF IsPending(e)
               THEN /\ apc' = "sleep"
                    /\ wakeAt' = now + response.interval
                    /\ UNCHANGED authResult
               ELSE /\ AuthReturn(Authorization(e))
                    /\ UNCHANGED wakeAt
            /\ UNCHANGED token_data
    /\ UNCHANGED <<stored, now, token, read, refreshed, response, pollStart,
                   requests, writes>>
    /\ UNCHANGED downloadVars

\* line 185: sleep(Duration::from_secs(interval)) has ended
Wake ==
    /\ apc = "sleep"
    /\ now >= wakeAt
    /\ apc' = "poll_send"
    /\ UNCHANGED <<stored, now, token, read, refreshed, token_data, response,
                   pollStart, wakeAt, requests, replies, writes, authResult>>
    /\ UNCHANGED downloadVars

\* line 125: Duration::from_secs(response.expires_in), from the start
Deadline(start, code) == start + code.expires_in

\* authenticate is suspended in the polling.
Polling == apc \in {"poll_wait", "sleep"}

\* A second passes while authenticate waits for the answer to a polling
\* request or sleeps.  A timer that is due fires before the clock moves on.
Tick ==
    /\ Polling
    /\ now < Deadline(pollStart, response)
    /\ apc = "sleep" => now < wakeAt
    /\ now' = now + 1
    /\ UNCHANGED <<stored, apc, token, read, refreshed, token_data, response,
                   pollStart, wakeAt, requests, replies, writes, authResult>>
    /\ UNCHANGED downloadVars

\* lines 124-128: timeout(..) elapses while the polling is suspended; the
\* polling future is dropped and `??` returns the error.
Timeout ==
    /\ Polling
    /\ now >= Deadline(pollStart, response)
    /\ AuthReturn(Err("timeout"))
    /\ UNCHANGED <<stored, now, token, read, refreshed, token_data, response,
                   pollStart, wakeAt, requests, replies, writes>>
    /\ UNCHANGED downloadVars

\* lines 130-131: set, then go on to notify
SetAuthorized ==
    /\ apc = "set_authorized"
    /\ StorageSet("notify")
    /\ UNCHANGED <<now, token, read, refreshed, token_data, response,
                   pollStart, wakeAt, requests, replies>>
    /\ UNCHANGED downloadVars

\* lines 133-135 with notify, lines 189-213: machine_uid::get() may panic
\* (line 194) before the POST; the POST may fail (`?`).
Notify ==
    /\ apc = "notify"
    /\ \/ /\ requests' = Append(requests, Request("notify"))
          /\ AuthReturn(Ok(token_data.access_token))
       \/ /\ requests' = Append(requests, Request("notify"))
          /\ AuthReturn(Err("notify"))
       \/ /\ AuthReturn(Panic)
          /\ UNCHANGED requests
    /\ UNCHANGED <<stored, now, token, read, refreshed, token_data, response,
                   pollStart, wakeAt, replies, writes>>
    /\ UNCHANGED downloadVars

AuthNext ==
    \/ GetStored
    \/ MatchToken
    \/ Refresh
    \/ SetRefreshed
    \/ GetDeviceCode
    \/ PollSend
    \/ PollReply
    \/ Wake
    \/ Tick
    \/ Timeout
    \/ SetAuthorized
    \/ Notify

AuthSpec == AuthInit /\ [][AuthNext]_vars

\* ------------------------------------------------------------------ claims
\* download_to has returned (with a value or by panicking).
Returned == pc = "done"

\* The planning loop of lines 70-76 has run.
Planned ==
    \/ pc \in {"create", "spawn", "join"}
    \/ result \in {"ok", "create_error", "join_error"}

\* Byte indices a planned pair addresses on the wire: Range: bytes=start-end,
\* both ends inclusive.
Addressed(r) == r[1]..r[2]

\* Last byte index the server sends for the pair r (clamped to the resource).
LastByte(r) == Min(r[2], total_size - 1)

\* C1: for total_size >= 0 and threads >= 1 the planned pairs, read as
\* inclusive byte ranges, are sorted by start, pairwise disjoint, and their
\* union is exactly 0 .. total_size-1 (so no pair addresses an index
\* >= total_size and there is no gap); the plan is empty only when
\* total_size = 0.
C1_ExactPartition ==
    (Planned /\ threads >= 1) =>
        /\ \A i, j \in 1..Len(ranges) :
              i < j => /\ ranges[i][1] < ranges[j][1]
                       /\ Addressed(ranges[i]) \cap Addressed(ranges[j]) = {}
        /\ UNION {Addressed(ranges[i]) : i \in 1..Len(ranges)}
              = 0..(total_size - 1)
        /\ (ranges = << >> => total_size = 0)

\* C2: when the server answers every ranged GET with the bytes of the
\* requested inclusive range, clamped to the last byte, and every fetcher
\* succeeded, the destination file after a successful return is the resource,
\* byte for byte, whatever the interleaving and the chunking were.
C2_RoundTrip ==
    (result = "ok" /\ server = "partial"
        /\ \A i \in 1..Len(fetchers) : fetchers[i].res = "ok")
    => (fileExists /\ file = Resource(total_size))

C2_Witness ==
    /\ result = "ok"
    /\ server = "partial"
    /\ total_size = MaxSize
    /\ Len(fetchers) >= 2
    /\ \A i \in 1..Len(fetchers) : fetchers[i].res = "ok"
    /\ file = Resource(total_size)

\* C3: whenever a spawned fetcher ended with an error, download_to returns a
\* failure, never success.
C3_FailureReported ==
    (Returned /\ \E i \in 1..Len(fetchers) : fetchers[i].res = "err")
    => result # "ok"

\* C4: download_to has returned only when every spawned fetcher has finished:
\* in no state has it returned while a fetcher is running or holds the file.
C4_JoinBeforeResult ==
    Returned => (/\ \A i \in 1..Len(fetchers) : fetchers[i].pc = "done"
                 /\ lock = 0)

C4_Witness ==
    /\ Returned
    /\ Len(fetchers) >= 2
    /\ \E i \in 1..Len(fetchers) : fetchers[i].res = "err"
    /\ \E i \in 1..Len(fetchers) : fetchers[i].res = "ok"

\* C5: when the Accept-Ranges header of the probe response is absent or is
\* anything but the literal "bytes", download_to has returned a failure, no
\* fetcher was spawned and no ranged GET was sent; the download is at or past
\* planning only when the header was "bytes".
C5_RangeGate ==
    /\ acceptHeader \in (AcceptValues \ {"bytes"}) =>
          /\ Returned
          /\ result = "ranges_unsupported"
          /\ fetchers = << >>
          /\ getRequests = << >>
    /\ (Planned \/ pc = "plan" \/ result = "panic"
           \/ fetchers # << >> \/ getRequests # << >>)
          => acceptHeader = "bytes"

C5_Witness ==
    /\ acceptHeader = "Bytes"
    /\ Returned
    /\ result = "ranges_unsupported"
    /\ threads >= 1
    /\ total_size >= 1

\* C6: for total_size > 0 and threads >= 1 the plan has at most `threads`
\* pairs and at most total_size pairs, and every pair covers at least one byte
\* of the resource.
C6_PlanSizeBounds ==
    (Planned /\ total_size > 0 /\ threads >= 1) =>
        /\ Len(ranges) <= threads
        /\ Len(ranges) <= total_size
        /\ \A i \in 1..Len(ranges) : ranges[i][1] <= LastByte(ranges[i])

C6_Witness ==
    /\ Planned
    /\ total_size > 1
    /\ threads > total_size
    /\ Len(ranges) = total_size

\* C7: when threads >= 1 divides total_size > 0 the plan has exactly `threads`
\* pairs, pair i (counted from 0) starts at i * chunk_size and covers exactly
\* chunk_size = total_size / threads bytes.
C7_EvenSplit ==
    (Planned /\ threads >= 1 /\ total_size > 0 /\ total_size % threads = 0) =>
        /\ Len(ranges) = threads
        /\ \A i \in 1..Len(ranges) :
              /\ ranges[i][1] = (i - 1) * (total_size \div threads)
              /\ ranges[i][2] - ranges[i][1] + 1 = total_size \div threads

\* C8: a failing fetcher cancels nobody: once all fetchers have finished, each
\* fetcher that succeeded has read its stream to the end and written all of
\* it, and its range of the file holds the resource's bytes at their offsets.
C8_SiblingsSurvive ==
    (server = "partial" /\ Len(fetchers) = Len(ranges) /\ Finished(fetchers))
    => \A i \in 1..Len(fetchers) :
          fetchers[i].res = "ok" =>
              /\ fetchers[i].body = << >>
              /\ fetchers[i].written
                    = LastByte(ranges[i]) - fetchers[i].start + 1
              /\ Len(file) >= LastByte(ranges[i]) + 1
              /\ \A o \in fetchers[i].start..LastByte(ranges[i]) :
                    file[o + 1] = Resource(total_size)[o + 1]

C8_Witness ==
    /\ server = "partial"
    /\ Len(fetchers) >= 2
    /\ Len(fetchers) = Len(ranges)
    /\ Finished(fetchers)
    /\ fetchers[1].res = "err"
    /\ fetchers[1].written = 0
    /\ fetchers[2].res = "ok"
    /\ fetchers[2].written >= 1

\* C9: the bytes reported to the progress bar never exceed the bar's length,
\* and when download_to has returned success they equal total_size.
C9_ProgressInvariant ==
    /\ progressPos <= progressLen
    /\ (result = "ok" => progressPos = total_size)

\* C10: called with threads = 0, download_to ends with an error value and has
\* sent no HEAD and no GET request by then.
C10_ValidationFirst ==
    (threads = 0 /\ Returned) =>
        /\ result \notin {"ok", "panic"}
        /\ headRequests = 0
        /\ getRequests = << >>

\* The pair of fetcher f addresses less than the whole resource.
ProperSubRange(f) == ~(f.start = 0 /\ f.end >= total_size - 1)

\* C11: when the server answers the ranged GET for a proper sub-range with
\* the full content, that fetcher ends with an error on the response and
\* writes none of the response's bytes.
C11_FullResponseAborts ==
    server = "full" =>
        \A i \in 1..Len(fetchers) :
            ProperSubRange(fetchers[i]) =>
                /\ fetchers[i].pc \in {"build", "send", "response", "done"}
                /\ fetchers[i].res # "ok"
                /\ fetchers[i].written = 0

\* A success status code.
Is2xx(s) == s \in 200..299

\* The destination path is as it was before the call: absent, or the old
\* file with its content.
FileUntouched == IF fileExists THEN file = OldFile ELSE file = << >>

\* C12: once a HEAD response with a non-2xx status has arrived, download_to
\* has returned a failure, without creating the destination file and without
\* a ranged GET, whatever headers that response carries.
C12_ProbeStatusFatal ==
    (~Is2xx(headStatus) /\ lengthHeader # <<"unread">>) =>
        /\ Returned
        /\ result # "ok"
        /\ fetchers = << >>
        /\ getRequests = << >>
        /\ FileUntouched

\* C13: when the probe response has no Content-Length header, or one that is
\* empty, not a number or negative, download_to has returned a failure and no
\* fetcher was spawned.
C13_MissingLengthFatal ==
    lengthHeader \in {<<"absent">>, << >>, <<"x">>, <<"-", "1">>} =>
        /\ Returned
        /\ result \in {"no_length", "bad_length"}
        /\ fetchers = << >>
        /\ getRequests = << >>

C13_Witness ==
    /\ lengthHeader = <<"-", "1">>
    /\ Returned
    /\ result = "bad_length"
    /\ threads >= 1
    /\ total_size >= 1
    /\ fetchers = << >>

\* C14: when the probe reports a length of 0 and range support, then for
\* every threads >= 1 the plan is empty, no fetcher is spawned and no ranged
\* GET is sent, and (File::create not failing) download_to returns success
\* with the destination file created and of length 0.
C14_EmptyResource ==
    (total_size = 0 /\ threads >= 1 /\ lengthHeader = <<"0">>
        /\ acceptHeader = "bytes" /\ result # "create_error")
    => /\ ranges = << >>
       /\ fetchers = << >>
       /\ getRequests = << >>
       /\ pc \in {"plan", "create", "join", "done"}
       /\ (pc = "join" => (fileExists /\ file = << >>))
       /\ (Returned => (result = "ok" /\ fileExists /\ file = << >>))

C14_Witness ==
    /\ total_size = 0
    /\ threads = MaxThreads
    /\ lengthHeader = <<"0">>
    /\ acceptHeader = "bytes"
    /\ Planned
    /\ ranges = << >>
    /\ result = "ok"
    /\ fileExists
    /\ file = << >>
    /\ fetchers = << >>

\* download_to has returned on a probing or planning failure: a probe request
\* failed, the length was missing or unparsable, ranges are not supported, or
\* the plan could not be computed.
EarlyFailure ==
    /\ Returned
    /\ \/ result \in {"probe_error", "no_length", "bad_length",
                      "ranges_unsupported", "panic"}
       \/ lengthHeader \in {<<"absent">>, << >>, <<"x">>, <<"-", "1">>}
       \/ acceptHeader \in (AcceptValues \ {"bytes"})

\* C15: on every probing or planning failure the destination path was
\* neither created nor truncated (a file already there keeps its content),
\* no fetcher was spawned and no ranged GET was sent.
C15_NoPartialWork ==
    EarlyFailure =>
        /\ FileUntouched
        /\ cursor = 0
        /\ fetchers = << >>
        /\ getRequests = << >>

C15_Witness ==
    /\ Returned
    /\ result = "ranges_unsupported"
    /\ total_size >= 1
    /\ threads >= 1
    /\ fileExists
    /\ file = OldFile
    /\ fetchers = << >>

\* Fetcher i is between file.lock() and the drop of its guard.
InCriticalSection(i) == fetchers[i].pc \in {"seek", "write", "inc"}

\* C16: at most one fetcher holds the file lock; a fetcher is between its
\* lock and the end of its write exactly while it holds it, so its seek and
\* its write happen under one hold: when it writes, the cursor is where it
\* sought, and the chunk it wrote lies in the file at its own offset.
C16_SeekWriteAtomic ==
    /\ \A i, j \in 1..Len(fetchers) :
          (InCriticalSection(i) /\ InCriticalSection(j)) => i = j
    /\ \A i \in 1..Len(fetchers) : InCriticalSection(i) <=> lock = i
    /\ \A i \in 1..Len(fetchers) :
          /\ fetchers[i].pc = "write" => cursor = fetchers[i].offset
          /\ fetchers[i].pc = "inc" =>
                /\ cursor = fetchers[i].offset + Len(fetchers[i].chunk)
                /\ Len(file) >= cursor
                /\ SubSeq(file, fetchers[i].offset + 1, cursor)
                      = fetchers[i].chunk

C16_Witness ==
    \E i, j \in 1..Len(fetchers) :
        /\ i # j
        /\ lock = i
        /\ fetchers[i].pc = "inc"
        /\ fetchers[i].offset > 0
        /\ fetchers[j].pc = "lock"
        /\ fetchers[j].written > 0

\* File offsets fetcher f has written so far: it writes contiguously from
\* its start.
WrittenOffsets(f) == f.start..(f.start + f.written - 1)

\* C17: whatever body the server delivers, every byte a fetcher writes lands
\* at an offset within its own planned pair [start, end] and never inside
\* another fetcher's pair.
C17_WritesInRange ==
    \A i \in 1..Len(fetchers) :
        /\ WrittenOffsets(fetchers[i]) \subseteq Addressed(ranges[i])
        /\ \A j \in 1..Len(ranges) :
              j # i => WrittenOffsets(fetchers[i]) \cap Addressed(ranges[j]) = {}

\* The first probe succeeded, so ProgressBar::new on line 45 has run.
BarCreated == lengthHeader # <<"unread">> /\ ContentLength(lengthHeader).ok

\* C18: on every path on which download_to returns after creating the
\* progress bar, success or failure, finish_and_clear has run before the
\* return.
C18_ProgressFinalized == (Returned /\ BarCreated) => progressDone

\* Bytes all fetchers have put into the destination file so far.
RECURSIVE TotalWritten(_)
TotalWritten(fs) ==
    IF fs = << >> THEN 0
    ELSE TotalWritten(SubSeq(fs, 1, Len(fs) - 1)) + fs[Len(fs)].written

\* Those of them that were written by a write_all that then failed.
RECURSIVE TotalTorn(_)
TotalTorn(fs) ==
    IF fs = << >> THEN 0
    ELSE TotalTorn(SubSeq(fs, 1, Len(fs) - 1)) + fs[Len(fs)].torn

\* Bytes written by a fetcher that has not yet reached its progress.inc.
RECURSIVE PendingInc(_)
PendingInc(fs) ==
    IF fs = << >> THEN 0
    ELSE PendingInc(SubSeq(fs, 1, Len(fs) - 1))
         + (IF fs[Len(fs)].pc = "inc" THEN Len(fs[Len(fs)].chunk) ELSE 0)

\* The bar can be drawn: no fetcher is between its write_all and its
\* progress.inc (both are under the file lock, and the bar is drawn only from
\* within progress.inc and finish_and_clear).
Observable == \A i \in 1..Len(fetchers) : fetchers[i].pc # "inc"

\* C19 as claimed: whenever the bar can be observed, and at completion, the
\* reported byte count equals the bytes written to the file by all fetchers.
C19_ReportedEqualsWritten ==
    Observable => progressPos = TotalWritten(fetchers)

\* C19 as amended: in every state the reported byte count plus the chunk of
\* the fetcher that is between write_all and progress.inc equals the bytes
\* written by the write_all calls that succeeded; so whenever the bar can be
\* observed, and at completion, it equals the bytes of the successful writes.
C19_ReportedEqualsCompleted ==
    progressPos + PendingInc(fetchers)
        = TotalWritten(fetchers) - TotalTorn(fetchers)

C19_Witness ==
    /\ Returned
    /\ server = "partial"
    /\ Len(fetchers) >= 2
    /\ TotalTorn(fetchers) >= 1
    /\ progressPos >= 1
    /\ progressPos = TotalWritten(fetchers) - TotalTorn(fetchers)

\* Fetcher i is not using the file: it has not started, waits for the
\* network, waits for the lock, or is done.
OffFile(i) ==
    fetchers[i].pc \in {"build", "send", "response", "next", "lock", "done"}

\* C20: a fetcher that waits for its response or for its next chunk does not
\* hold the file lock; so when a fetcher has a chunk in hand and all others
\* are off the file, the lock is free and it can take it.
C20_WaitingHoldsNoLock ==
    /\ \A i \in 1..Len(fetchers) :
          fetchers[i].pc \in {"response", "next"} => lock # i
    /\ \A j \in 1..Len(fetchers) :
          (/\ fetchers[j].pc = "lock"
           /\ \A i \in 1..Len(fetchers) : OffFile(i))
          => (lock = 0 /\ ENABLED Lock(j))

C20_Witness ==
    \E i, j \in 1..Len(fetchers) :
        /\ i # j
        /\ fetchers[i].pc = "next"
        /\ fetchers[i].written > 0
        /\ fetchers[i].body # << >>
        /\ fetchers[j].pc = "lock"
        /\ lock = 0

\* Number of ranged GETs sent so far with the Range header pair r.
RequestsFor(r) ==
    Cardinality({k \in 1..Len(getRequests) : getRequests[k] = r})

\* The spawn loop of lines 82-114 has run to its end.
SpawnedAll == pc = "join" \/ result \in {"ok", "join_error"}

\* Task i has ended with an error.
Failed(fs, i) == fs[i].pc = "done" /\ fs[i].res = "err"

C21_State ==
    /\ Len(fetchers) <= Len(ranges)
    /\ SpawnedAll => Len(fetchers) = Len(ranges)
    /\ \A i \in 1..Len(fetchers) :
         /\ <<fetchers[i].start, fetchers[i].end>> = ranges[i]
         /\ fetchers[i].pc \in {"build", "send"} => RequestsFor(ranges[i]) = 0
    /\ \A i \in 1..Len(ranges) : RequestsFor(ranges[i]) <= 1
    /\ \A k \in 1..Len(getRequests) :
         \E i \in 1..Len(fetchers) : getRequests[k] = ranges[i]

C21_Step ==
    /\ Len(fetchers') >= Len(fetchers)
    /\ \A i \in 1..Len(fetchers) :
         Failed(fetchers, i) =>
            /\ fetchers'[i] = fetchers[i]
            /\ RequestsFor(ranges[i])' = RequestsFor(ranges[i])

\* C21: one fetcher is spawned per planned range, in plan order, none more;
\* every planned range is requested by at most one ranged GET and every GET
\* is for a planned range; a fetcher that has failed stays failed and no
\* request for its range is sent afterwards.
C21_OneRequestPerRange == [](C21_State) /\ [][C21_Step]_vars

\* all fetchers of a plan of several ranges are spawned, one failed after
\* its request went out, one failed before sending it, and download_to
\* has returned
C21_Witness ==
    /\ Returned
    /\ Len(ranges) >= 2
    /\ Len(fetchers) = Len(ranges)
    /\ \E i, j \in 1..Len(fetchers) :
         /\ Failed(fetchers, i) /\ RequestsFor(ranges[i]) = 1
         /\ Failed(fetchers, j) /\ RequestsFor(ranges[j]) = 0

\* download_to has ended with a value; with threads >= 1 it has returned
\* Ok or Err, with threads = 0 the division of line 70 has ended it.  Every
\* task it spawned has ended too: none is left waiting, for the file lock
\* of line 104 or for anything else.
Ended ==
    /\ Returned
    /\ result # "none"
    /\ threads >= 1 => result # "panic"
    /\ Planned => Len(ranges) <= MaxFetchers
    /\ Finished(fetchers)
    /\ lock = 0

\* C22: under fair scheduling download_to eventually ends and its result is
\* then final (one result, never a second one); the planning loop ends for
\* every total_size and every threads >= 1; no task waits forever for the
\* file lock: every task has ended when download_to has.
C22_Termination ==
    /\ <>[]Ended
    /\ [][Returned => pc' = pc /\ result' = result]_vars

\* a task waits for the lock while another task holds it
C22_Witness ==
    \E i, j \in 1..Len(fetchers) :
        /\ fetchers[i].pc = "lock"
        /\ lock = j
        /\ j # i
        /\ fetchers[j].pc = "write"

\* storage.get() has returned a value (it has not panicked on the file).
HasRead == token.kind # "unread"

\* What storage.get() returned for the file content and the time it saw.
C25_State ==
    HasRead =>
        LET d == read.data
            t == read.at
            fresh == t < d.updated_at + d.expires_in
            renewable == t < d.updated_at + 29 * 86400
        IN  /\ d.kind = "missing" => token = NoToken
            /\ d.kind = "data" =>
                 /\ token = AccessToken(d.access_token) <=> fresh
                 /\ ~fresh =>
                      (token = RefreshToken(d.refresh_token) <=> renewable)
                 /\ ~fresh /\ ~renewable => token = NoToken
                 /\ token.kind \in {"access", "refresh", "none"}

\* C25: for stored token data (updated_at, expires_in) read at time now,
\* storage.get returns the access token iff now < updated_at + expires_in,
\* otherwise the refresh token iff now < updated_at + 29 days, otherwise
\* nothing; it returns nothing when the file does not exist; the step that
\* reads leaves the file as it is.
C25_GetClassifies ==
    /\ [](C25_State)
    /\ [][apc = "get" => stored' = stored]_vars

\* the file was read in the very second its access token expired, the 29
\* days not being over: the refresh token came back
C25_Witness ==
    /\ HasRead
    /\ read.data.kind = "data"
    /\ read.at = read.data.updated_at + read.data.expires_in
    /\ token = RefreshToken("r0")
    /\ stored = read.data

\* authenticate has sent a request of kind k.
Sent(k) == \E n \in 1..Len(requests) : requests[n].kind = k

\* authenticate is in the device-code flow of lines 122-135, or was.
DeviceFlow ==
    \/ apc \in {"device_code", "poll_send", "poll_wait", "sleep",
                "set_authorized", "notify"}
    \/ Sent("device_code")

\* C23: with a stored access token authenticate returns that token, sends no
\* request and writes nothing; when the stored refresh token was refreshed,
\* the new token data is in the storage by the time the new access token is
\* returned, and no device-code flow is started; the device-code flow starts
\* only when the storage gave no token or the refresh gave none.
C23_PathSelection ==
    /\ token.kind = "access" =>
         /\ apc \in {"match", "done"}
         /\ apc = "done" => authResult = Ok(read.data.access_token)
         /\ requests = << >>
         /\ writes = << >>
         /\ stored = read.data
    /\ refreshed = "some" =>
         /\ token = RefreshToken(read.data.refresh_token)
         /\ ~DeviceFlow
         /\ authResult.kind = "ok" =>
              /\ authResult.value = token_data.access_token
              /\ authResult.value # read.data.access_token
              /\ writes = <<token_data>>
              /\ stored = token_data
              /\ token_data.updated_at = now
    /\ refreshed # "unasked" =>
         /\ token.kind = "refresh"
         /\ requests[1].kind = "refresh"
    /\ DeviceFlow =>
         \/ token = NoToken
         \/ token.kind = "refresh" /\ refreshed = "none"

\* the stored access token had expired, the refresh gave a new token and
\* authenticate returned it, the storage holding the new token data
C23_Witness ==
    /\ apc = "done"
    /\ token = RefreshToken("r0")
    /\ refreshed = "some"
    /\ authResult = Ok("a1")
    /\ stored.access_token = "a1"
    /\ stored.updated_at = now

IsPoll(r) == r.kind = "poll"

\* The polling requests of lines 165-173, in the order sent.
PollRequests == SelectSeq(requests, IsPoll)

\* The last answer the polling loop received.
LastReply == replies[Len(replies)]

\* authenticate failed in the polling or before it: by the timeout, by an
\* Authorization error, or by a failed request of the device-code flow.
PollingFailed ==
    \/ authResult.kind = "authorization"
    \/ authResult \in {Err("timeout"), Err("request")}

\* C24: the polling loop sends one request per answer and goes on, after a
\* sleep of `interval` seconds, only after the answer "authorization_pending";
\* the first successful answer ends it with the token, the first answer with
\* another error ends it with that Authorization error; the polling never
\* lasts longer than `expires_in` seconds, the timeout ending it then; when
\* authenticate fails by the timeout or by an error of the polling, nothing
\* was written to the token storage.
C24_Polling ==
    /\ Len(PollRequests) =
         Len(replies) + (IF apc = "poll_wait" THEN 1 ELSE 0)
         + (IF authResult = Err("timeout") /\ Len(replies) < Len(PollRequests)
            THEN 1 ELSE 0)
    /\ \A k \in 1..(Len(replies) - 1) :
         replies[k].kind = "error" /\ replies[k].error = "authorization_pending"
    /\ \A n \in 2..Len(PollRequests) :
         PollRequests[n].at >= replies[n - 1].at + response.interval
    /\ replies # << >> =>
         /\ LastReply.kind = "error" /\ LastReply.error = "authorization_pending"
              => \/ apc \in {"sleep", "poll_send", "poll_wait"}
                 \/ authResult = Err("timeout")
         /\ LastReply.kind = "error" /\ LastReply.error # "authorization_pending"
              => apc = "done" /\ authResult = Authorization(LastReply.error)
         /\ LastReply.kind = "token"
              => /\ apc \in {"set_authorized", "notify", "done"}
                 /\ ~PollingFailed
                 /\ token_data.access_token = "a2"
                 /\ authResult.kind = "ok" => authResult.value = "a2"
         /\ LastReply.kind = "failed"
              => apc = "done" /\ authResult = Err("request")
    /\ apc \in {"poll_send", "poll_wait", "sleep"} =>
         now <= pollStart + response.expires_in
    /\ \A n \in 1..Len(PollRequests) :
         PollRequests[n].at <= pollStart + response.expires_in
    /\ authResult = Err("timeout") => now = pollStart + response.expires_in
    /\ PollingFailed => writes = << >> /\ stored = read.data

\* the server answered "authorization_pending" twice, authenticate slept in
\* between, and the timeout ended the polling with nothing written
C24_Witness ==
    /\ authResult = Err("timeout")
    /\ Len(replies) >= 2
    /\ LastReply.error = "authorization_pending"
    /\ now = pollStart + response.expires_in
    /\ writes = << >>

====
